---- MODULE Spec2Model ----
(***************************************************************************)
(* Model of the gps-dashboard: the cost aggregation route GET /api/costs,  *)
(* the route GET /api/costs/hetzner, the Dashboard page, the middleware and *)
(* the login route.                                                        *)
(*                                                                         *)
(* Time.  An instant is an integer number of hours of local time counted   *)
(* from 2024-01-01T00:00.  The server's zone is taken to have a constant   *)
(* offset, so local calendar arithmetic and absolute arithmetic agree.     *)
(* All clock reads made by one uninterrupted (await-free) run of code      *)
(* observe the same instant; the clock may advance at every await.         *)
(*                                                                         *)
(* Money.  JavaScript numbers are modelled as exact quantities.  A money   *)
(* value is a two-limb integer  hi * MoneyBase + lo  (0 <= lo < MoneyBase) *)
(* counted in thirds of a nano-dollar, the coarsest unit in which every    *)
(* rate of the source and every product the code forms is integral.  Two   *)
(* limbs are needed only because the values exceed 32 bits.                *)
(***************************************************************************)
EXTENDS Integers, Sequences, FiniteSets, TLC

(***************************************************************************)
(* Bounds of the model                                                     *)
(***************************************************************************)
\* clock ticks (hours) that may pass while one request is being served
MaxElapsed == 1
\* servers in a Hetzner inventory
MaxServers == 1
\* days after 2024-01-01 from which the date-range specification draws now
HorizonDays == 65
\* at most this many fetches of /api/costs are issued by the page
MaxFetches == 3
\* at most this many records in an answer of the VAPI call list
MaxCalls == 3

\* the JSON / JavaScript null
NullValue == [null |-> TRUE]
IsNull(x) == "null" \in DOMAIN x
\* a JSON array is [array |-> <<...>>]; Array.isArray
IsArray(x) == "array" \in DOMAIN x

\* An upstream answer o has a kind: "status" (non-success status), "network"
\* (the fetch rejects), "invalid_json" (the body does not parse), "text_error"
\* (reading the error body rejects), "auth_error" (no access token),
\* "malformed" (a parsed body that is not in the expected shape) or "ok".
\* The code never sees the kind: for the last two it inspects the body.
Failed(o) == o.kind # "ok"

(***************************************************************************)
(* JavaScript Date arithmetic (proleptic Gregorian calendar)               *)
(***************************************************************************)
\* day number (since 1970-01-01) of the civil date y-m-d, m in 1..12
DaysFromCivil(y, m, d) ==
  LET yy  == IF m <= 2 THEN y - 1 ELSE y
      era == yy \div 400
      yoe == yy - era * 400
      mp  == IF m > 2 THEN m - 3 ELSE m + 9
      doy == (153 * mp + 2) \div 5 + d - 1
      doe == yoe * 365 + yoe \div 4 - yoe \div 100 + doy
  IN  era * 146097 + doe - 719468

\* civil date of a day number: [year, month (0-based, as Date.getMonth), date]
CivilFromDays(z) ==
  LET zz  == z + 719468
      era == zz \div 146097
      doe == zz - era * 146097
      yoe == (doe - doe \div 1460 + doe \div 36524 - doe \div 146096) \div 365
      doy == doe - (365 * yoe + yoe \div 4 - yoe \div 100)
      mp  == (5 * doy + 2) \div 153
      d   == doy - (153 * mp + 2) \div 5 + 1
      m   == IF mp < 10 THEN mp + 3 ELSE mp - 9
      y   == yoe + era * 400 + (IF m <= 2 THEN 1 ELSE 0)
  IN  [year |-> y, month |-> m - 1, date |-> d]

\* days between 1970-01-01 and 2024-01-01, the origin of the model's instants
EpochDays == DaysFromCivil(2024, 1, 1)

\* new Date(year, month, date, hours): month is 0-based
MakeDate(year, month, date, hours) ==
  (DaysFromCivil(year, month + 1, date) - EpochDays) * 24 + hours

Civil(t) == CivilFromDays(t \div 24 + EpochDays)
getFullYear(t) == Civil(t).year
getMonth(t) == Civil(t).month
getDate(t) == Civil(t).date
getHours(t) == t % 24

\* d.setHours(0, 0, 0, 0)
setHoursZero(t) == t - getHours(t)
\* d.setDate(n): same month and time of day, day of month n (n may be <= 0)
setDate(t, n) == t + (n - getDate(t)) * 24
\* d.setFullYear(y, m, dd): the time of day is kept
setFullYear3(t, y, m, dd) == MakeDate(y, m, dd, getHours(t))
\* d.setFullYear(y): month, date and time of day are kept
setFullYear1(t, y) == MakeDate(y, getMonth(t), getDate(t), getHours(t))

(***************************************************************************)
(* Exact arithmetic on money values                                        *)
(***************************************************************************)
MoneyBase == 100 * 100

MRaw(h, l) == [hi |-> h + (l \div MoneyBase), lo |-> l % MoneyBase]
MZero == [hi |-> 0, lo |-> 0]
MAdd(a, b) == MRaw(a.hi + b.hi, a.lo + b.lo)
MNeg(a) == MRaw(0 - a.hi, 0 - a.lo)
MLt(a, b) == a.hi < b.hi \/ (a.hi = b.hi /\ a.lo < b.lo)
MLeq(a, b) == a = b \/ MLt(a, b)
\* Math.min
MMin(a, b) == IF MLt(b, a) THEN b ELSE a
MScaleSmall(n, m) == MRaw(n * m.hi, n * m.lo)

RECURSIVE MScaleNat(_, _)
MScaleNat(n, m) ==
  IF n < 1000 THEN MScaleSmall(n, m)
  ELSE MAdd(MScaleSmall(1000, MScaleNat(n \div 1000, m)), MScaleSmall(n % 1000, m))

\* n * m for an integer n
MScale(n, m) == IF n < 0 THEN MNeg(MScaleNat(0 - n, m)) ELSE MScaleNat(n, m)
\* m / 1000, m / 2 and m / 3 for values they divide exactly
MDiv1000(m) == MRaw(m.hi \div 1000, (m.hi % 1000) * (MoneyBase \div 1000) + m.lo \div 1000)
MHalf(m) == MRaw(m.hi \div 2, ((m.hi % 2) * MoneyBase + m.lo) \div 2)
MThird(m) == MRaw(m.hi \div 3, ((m.hi % 3) * MoneyBase + m.lo) \div 3)

\* literals: n nano-dollars, n micro-dollars
Nano(n) == MScale(n, [hi |-> 0, lo |-> 3])
Micro(n) == MScale(n, [hi |-> 0, lo |-> 3000])

(***************************************************************************)
(* Constants of the route                                                  *)
(***************************************************************************)
\* GCP_PRICING
e2MediumHourly == Micro(33550)
cloudRunCpuPerVCpuSecond == Nano(24000)
cloudRunMemPerGibSecond == Nano(2500)
cloudRunRequestsPerMillion == Micro(400000)
\* getVAPICosts
maxHistoryDays == 14
maxHistoryMs == maxHistoryDays * 24

Periods == {"today", "week", "month", "all"}

(***************************************************************************)
(* getDateRange: both Dates are created at the instant now                 *)
(***************************************************************************)
\* (variant: the week is taken ahead of now instead of behind it)
getDateRangeWeekAhead(p, now) ==
  [start |-> CASE p = "today" -> setHoursZero(now)
               [] p = "week"  -> setDate(now, getDate(now) + 7)
               [] p = "month" -> setHoursZero(setDate(now, 1))
               [] p = "all"   -> setFullYear3(now, 2024, 0, 1)
               [] OTHER       -> now,
   end   |-> now]

\* (variant: month without start.setHours(0, 0, 0, 0))
getDateRangeMonthKeepingTime(p, now) ==
  [start |-> CASE p = "today" -> setHoursZero(now)
               [] p = "week"  -> setDate(now, getDate(now) - 7)
               [] p = "month" -> setDate(now, 1)
               [] p = "all"   -> setFullYear3(now, 2024, 0, 1)
               [] OTHER       -> now,
   end   |-> now]

\* (variant: a switch whose default is the month)
getDateRangeUnknownAsMonth(p, now) ==
  [start |-> CASE p = "today" -> setHoursZero(now)
               [] p = "week"  -> setDate(now, getDate(now) - 7)
               [] p = "all"   -> setFullYear3(now, 2024, 0, 1)
               [] OTHER       -> setHoursZero(setDate(now, 1)),
   end   |-> now]

getDateRange(p, now) ==
  [start |-> CASE p = "today" -> setHoursZero(now)
               [] p = "week"  -> setDate(now, getDate(now) - 7)
               [] p = "month" -> setHoursZero(setDate(now, 1))
               [] p = "all"   -> setFullYear3(now, 2024, 0, 1)
               [] OTHER       -> now,
   end   |-> now]

\* the version of the route that preceded the Hetzner and GCP integrations
getDateRangeV1(p, now) ==
  [start |-> CASE p = "today" -> setHoursZero(now)
               [] p = "week"  -> setDate(now, getDate(now) - 7)
               [] p = "month" -> setHoursZero(setDate(now, 1))
               [] p = "all"   -> setFullYear1(now, 2020)
               [] OTHER       -> now,
   end   |-> now]

\* (end.getTime() - start.getTime()) / (1000 * 60 * 60)
HoursBetween(start, end) == end - start

\* truthiness of an optional boolean property of an object
Truthy(obj, field) == field \in DOMAIN obj /\ obj[field]

(***************************************************************************)
(* getVAPICosts                                                            *)
(***************************************************************************)
EmptyBreakdown == <<>>
ZeroBreakdown == [transport |-> MZero, stt |-> MZero, llm |-> MZero, tts |-> MZero, vapi |-> MZero]

\* x.f || 0
OrZero(obj, field) == IF field \in DOMAIN obj THEN obj[field] ELSE MZero

\* the synchronous part of getVAPICosts, up to the fetch
VapiStart(hasKey, p, now) ==
  IF ~hasKey
  THEN [st |-> "done",
        result |-> [total |-> MZero, calls |-> 0, breakdown |-> EmptyBreakdown,
                    limitedTo14Days |-> FALSE]]
  ELSE LET range == getDateRange(p, now)
           lower == range.end - maxHistoryMs
           effectiveStart == IF range.start > lower THEN range.start ELSE lower
       IN  [st |-> "pending",
            range |-> range,
            limitedTo14Days |-> effectiveStart > range.start,
            query |-> [createdAtGt |-> effectiveStart, createdAtLt |-> range.end]]

\* (variant: the cost of a call is added inside the test of costBreakdown)
VapiAddCallWithBreakdownOnly(acc, call) ==
  IF "costBreakdown" \in DOMAIN call
  THEN [total |-> MAdd(acc.total, OrZero(call, "cost")),
        breakdown |-> [k \in DOMAIN acc.breakdown |->
                         MAdd(acc.breakdown[k], OrZero(call.costBreakdown, k))]]
  ELSE acc

\* one iteration of the loop over the calls
VapiAddCall(acc, call) ==
  [total |-> MAdd(acc.total, OrZero(call, "cost")),
   breakdown |->
     IF "costBreakdown" \in DOMAIN call
     THEN [k \in DOMAIN acc.breakdown |-> MAdd(acc.breakdown[k], OrZero(call.costBreakdown, k))]
     ELSE acc.breakdown]

RECURSIVE VapiSum(_, _)
VapiSum(acc, calls) ==
  IF calls = <<>> THEN acc ELSE VapiSum(VapiAddCall(acc, Head(calls)), Tail(calls))

\* the part of getVAPICosts that runs once the fetch has settled
VapiSettled(task, o) ==
  LET zero == [total |-> MZero, calls |-> 0, breakdown |-> EmptyBreakdown]
      caught == zero @@ [limitedTo14Days |-> FALSE, error |-> "thrown"]
      result ==
        CASE o.kind \in {"network", "text_error", "invalid_json"} -> caught
          [] o.kind = "status" ->
               zero @@ [limitedTo14Days |-> task.limitedTo14Days, error |-> "API error"]
          [] OTHER ->
               IF ~IsArray(o.body)
               THEN zero @@ [limitedTo14Days |-> task.limitedTo14Days,
                             error |-> "Invalid response"]
               ELSE LET calls == o.body.array
                    IN  IF \E i \in 1..Len(calls) : IsNull(calls[i])
                        THEN caught
                        ELSE LET sum == VapiSum([total |-> MZero, breakdown |-> ZeroBreakdown], calls)
                             IN  [total |-> sum.total, calls |-> Len(calls),
                                  breakdown |-> sum.breakdown,
                                  limitedTo14Days |-> task.limitedTo14Days,
                                  isRealData |-> TRUE]
  IN  [st |-> "done", result |-> result, range |-> task.range,
       limitedTo14Days |-> task.limitedTo14Days, query |-> task.query,
       callFailed |-> Failed(o)]

(***************************************************************************)
(* getGCPCosts, getGCPCostsEstimated and the two monitoring queries        *)
(***************************************************************************)
\* price of one request: cloudRunRequestsPerMillion / 1000000
PerRequest == MDiv1000(MDiv1000(cloudRunRequestsPerMillion))

\* daysInPeriod * 200 = hoursInPeriod * 25 / 3, counted in thirds of a request
EstimatedRequestThirds(hoursInPeriod) == hoursInPeriod * 25
\* Math.round of a number of thirds
RoundThirds(n) == (n + 1) \div 3

\* a percentage is kept as the fraction it is computed from: (num / den) * 100
Ratio(n, d) == [num |-> n, den |-> d]

\* (variant: the estimate is charged at the 99.9% default uptime of getGCPCosts)
OpenclawEstimatedCostAtDefaultUptime(hoursInPeriod) ==
  MScale(hoursInPeriod * 999, MDiv1000(e2MediumHourly))

\* hoursInPeriod * GCP_PRICING.e2MediumHourly
OpenclawEstimatedCost(hoursInPeriod) == MScale(hoursInPeriod, e2MediumHourly)

getGCPCostsEstimated(p, now) ==
  LET range == getDateRange(p, now)
      hoursInPeriod == HoursBetween(range.start, range.end)
      openclawCost == OpenclawEstimatedCost(hoursInPeriod)
      estimatedRequests3 == EstimatedRequestThirds(hoursInPeriod)
      cloudRunCost == MScale(estimatedRequests3, MThird(PerRequest))
  IN  [openclaw |-> [total |-> openclawCost,
                     uptime |-> Ratio(999, 1000),
                     uptimeHours |-> hoursInPeriod * 999,
                     hourlyRate |-> e2MediumHourly,
                     isRealData |-> FALSE],
       cloudRun |-> [total |-> cloudRunCost,
                     requests |-> RoundThirds(estimatedRequests3),
                     isRealData |-> FALSE,
                     serviceName |-> "gps-bot"]]

\* getGCPAuth: null when the credentials are absent or cannot be parsed
getGCPAuth(creds) == creds = "valid"

RECURSIVE CountPoints(_)
CountPoints(series) ==
  IF series = <<>> THEN 0
  ELSE (IF "points" \in DOMAIN Head(series) THEN Len(Head(series).points) ELSE 0)
       + CountPoints(Tail(series))

RECURSIVE SumSeq(_)
SumSeq(xs) == IF xs = <<>> THEN 0 ELSE Head(xs) + SumSeq(Tail(xs))

RECURSIVE SumPoints(_)
SumPoints(series) ==
  IF series = <<>> THEN 0
  ELSE (IF "points" \in DOMAIN Head(series) THEN SumSeq(Head(series).points) ELSE 0)
       + SumPoints(Tail(series))

\* getComputeEngineMetrics once its call has settled; uptimeHours in whole hours
ComputeSettled(o) ==
  [st |-> "done",
   metrics |-> IF o.kind = "ok"
               THEN [uptimeHours |-> CountPoints(o.timeSeries), instances |-> Len(o.timeSeries)]
               ELSE NullValue,
   callFailed |-> Failed(o)]

\* getCloudRunMetrics once the request_count call has settled
CloudRunRequestsSettled(t, o) ==
  IF o.kind = "ok"
  THEN [st |-> "pending", stage |-> "cpu", requests |-> SumPoints(o.timeSeries)]
  ELSE [st |-> "done", metrics |-> NullValue, callFailed |-> TRUE]

\* getCloudRunMetrics once the billable_instance_time call has settled
CloudRunCpuSettled(t, o) ==
  CASE o.kind = "ok" ->
         [st |-> "done", callFailed |-> FALSE,
          metrics |-> [requests |-> t.requests, billableSeconds |-> SumPoints(o.timeSeries)]]
    [] o.kind = "status" ->
         [st |-> "done", callFailed |-> TRUE,
          metrics |-> [requests |-> t.requests, billableSeconds |-> 0]]
    [] OTHER -> [st |-> "done", callFailed |-> TRUE, metrics |-> NullValue]

\* the part of getGCPCosts after the Promise.all over the two queries
GcpResult(hoursInPeriod, computeMetrics, cloudRunMetrics) ==
  LET openclawIsReal == ~IsNull(computeMetrics) /\ computeMetrics.uptimeHours > 0
      \* uptime in thousandths of an hour: hoursInPeriod * 0.999 by default
      openclawUptime == IF openclawIsReal THEN computeMetrics.uptimeHours * 1000
                        ELSE hoursInPeriod * 999
      openclawCost == MScale(openclawUptime, MDiv1000(e2MediumHourly))
      cloudRunIsReal == ~IsNull(cloudRunMetrics)
                        /\ (cloudRunMetrics.requests > 0 \/ cloudRunMetrics.billableSeconds > 0)
      cloudRunRequests == IF cloudRunIsReal THEN cloudRunMetrics.requests
                          ELSE RoundThirds(EstimatedRequestThirds(hoursInPeriod))
      requestCost == MScale(cloudRunRequests, PerRequest)
      cloudRunCost ==
        IF cloudRunIsReal
        THEN IF cloudRunMetrics.billableSeconds > 0
             THEN MAdd(MAdd(MScale(cloudRunMetrics.billableSeconds, cloudRunCpuPerVCpuSecond),
                            MScale(cloudRunMetrics.billableSeconds, MHalf(cloudRunMemPerGibSecond))),
                       requestCost)
             ELSE MAdd(MAdd(MScale(cloudRunRequests, MHalf(cloudRunCpuPerVCpuSecond)),
                            MScale(cloudRunRequests, MHalf(MHalf(cloudRunMemPerGibSecond)))),
                       requestCost)
        ELSE requestCost
  IN  [openclaw |-> [total |-> openclawCost,
                     uptime |-> Ratio(openclawUptime, hoursInPeriod * 1000),
                     uptimeHours |-> openclawUptime,
                     hourlyRate |-> e2MediumHourly,
                     isRealData |-> openclawIsReal],
       cloudRun |-> [total |-> cloudRunCost,
                     requests |-> cloudRunRequests,
                     isRealData |-> cloudRunIsReal,
                     serviceName |-> "gps-bot"]]

\* the synchronous part of getGCPCosts, up to the Promise.all
GcpStart(creds, p, now) ==
  IF ~getGCPAuth(creds)
  THEN [st |-> "done", result |-> getGCPCostsEstimated(p, now)]
  ELSE LET range == getDateRange(p, now)
       IN  [st |-> "pending",
            range |-> range,
            hoursInPeriod |-> HoursBetween(range.start, range.end),
            compute |-> [st |-> "pending"],
            cloudRun |-> [st |-> "pending", stage |-> "requests"]]

\* (variant: getGCPCosts resumes as soon as the compute query has settled)
GcpJoinOnCompute(t) ==
  IF t.compute.st = "done"
  THEN [st |-> "done", range |-> t.range, compute |-> t.compute, cloudRun |-> t.cloudRun,
        result |-> GcpResult(t.hoursInPeriod, t.compute.metrics,
                             IF t.cloudRun.st = "done" THEN t.cloudRun.metrics ELSE NullValue)]
  ELSE t

\* getGCPCosts resumes when both queries have settled
GcpJoin(t) ==
  IF t.compute.st = "done" /\ t.cloudRun.st = "done"
  THEN [st |-> "done", range |-> t.range, compute |-> t.compute, cloudRun |-> t.cloudRun,
        result |-> GcpResult(t.hoursInPeriod, t.compute.metrics, t.cloudRun.metrics)]
  ELSE t

(***************************************************************************)
(* getHetznerCostsReal                                                     *)
(***************************************************************************)
\* server_type.prices.find(p => p.location === location) || prices[0]
LocationPricing(server) ==
  LET prices == server.server_type.prices
      hits == {i \in 1..Len(prices) : prices[i].location = server.datacenter.location.name}
  IN  IF hits # {} THEN prices[CHOOSE i \in hits : \A j \in hits : i <= j]
      ELSE IF Len(prices) > 0 THEN prices[1]
      ELSE NullValue

\* parseFloat(locationPricing?.price_hourly.gross || '0')
PriceHourly(server) ==
  LET lp == LocationPricing(server) IN IF IsNull(lp) THEN MZero ELSE lp.price_hourly
\* parseFloat(locationPricing?.price_monthly.gross || '0')
PriceMonthly(server) ==
  LET lp == LocationPricing(server) IN IF IsNull(lp) THEN MZero ELSE lp.price_monthly

\* (variant: no monthly cap)
MonthCostUncapped(serverCreated, priceHourly, priceMonthly, now) ==
  LET startOfMonth == MakeDate(getFullYear(now), getMonth(now), 1, 0)
      effectiveMonthStart == IF serverCreated > startOfMonth THEN serverCreated ELSE startOfMonth
  IN  MScale(HoursBetween(effectiveMonthStart, now), priceHourly)

\* the branch period === 'month' of the loop over the servers
MonthCost(serverCreated, priceHourly, priceMonthly, now) ==
  LET startOfMonth == MakeDate(getFullYear(now), getMonth(now), 1, 0)
      effectiveMonthStart == IF serverCreated > startOfMonth THEN serverCreated ELSE startOfMonth
      hoursThisMonth == HoursBetween(effectiveMonthStart, now)
  IN  MMin(MScale(hoursThisMonth, priceHourly), priceMonthly)

\* the cost of one server for the period: the body of the loop over the servers
PeriodCost(server, p, range, now) ==
  LET priceHourly == PriceHourly(server)
      priceMonthly == PriceMonthly(server)
      serverCreated == server.created
      effectiveStart == IF serverCreated > range.start THEN serverCreated ELSE range.start
      hoursInPeriod == HoursBetween(effectiveStart, range.end)
      startOfMonth == MakeDate(getFullYear(now), getMonth(now), 1, 0)
      monthsRunning == (getFullYear(now) - getFullYear(serverCreated)) * 12
                       + (getMonth(now) - getMonth(serverCreated))
  IN  IF effectiveStart < range.end
      THEN CASE p = "month" -> MonthCost(serverCreated, priceHourly, priceMonthly, now)
             [] p = "all" ->
                  MAdd(MScale(monthsRunning, priceMonthly),
                       MMin(MScale(HoursBetween(startOfMonth, now), priceHourly), priceMonthly))
             [] OTHER -> MScale(hoursInPeriod, priceHourly)
      ELSE MZero

RECURSIVE SumCosts(_)
SumCosts(details) ==
  IF details = <<>> THEN MZero ELSE MAdd(Head(details).cost, SumCosts(Tail(details)))

HetznerZero(machineType, now) ==
  [total |-> MZero, uptime |-> Ratio(999, 1000), machineType |-> machineType,
   monthlyRate |-> MZero, isRealData |-> FALSE, servers |-> <<>>, lastUpdated |-> now]

\* the synchronous part of getHetznerCostsReal, up to the fetch
HetznerStart(hasToken, now) ==
  IF ~hasToken
  THEN [st |-> "done", result |-> HetznerZero("Unknown", now)]
  ELSE [st |-> "pending"]

\* the part of getHetznerCostsReal after response.json(): the loop over the
\* servers and the estimate built from it; a server without server_type throws
HetznerParsed(p, now, o) ==
  LET servers == IF "servers" \in DOMAIN o.data THEN o.data.servers ELSE <<>>
  IN  IF \E i \in 1..Len(servers) : "server_type" \notin DOMAIN servers[i]
      THEN [st |-> "done", result |-> HetznerZero("Error", now), callFailed |-> Failed(o)]
      ELSE LET range == getDateRange(p, now)
               serverDetails ==
                 [i \in 1..Len(servers) |->
                    [cost |-> PeriodCost(servers[i], p, range, now),
                     monthlyRate |-> PriceMonthly(servers[i])]]
           IN  [st |-> "done",
                callFailed |-> Failed(o),
                range |-> range,
                servers |-> servers,
                result |->
                  [total |-> SumCosts(serverDetails),
                   uptime |-> Ratio(999, 1000),
                   machineType |-> IF Len(servers) > 0
                                   THEN servers[1].server_type.name
                                   ELSE "Unknown",
                   monthlyRate |-> IF Len(servers) > 0
                                   THEN PriceMonthly(servers[1]) ELSE MZero,
                   isRealData |-> TRUE,
                   servers |-> serverDetails,
                   lastUpdated |-> now]]

\* (variant: the error thrown for a non-success status is not caught)
HetznerSettledThrowing(p, now, o) ==
  CASE o.kind = "status" -> [st |-> "rejected"]
    [] o.kind \in {"network", "invalid_json"} ->
         [st |-> "done", result |-> HetznerZero("Error", now), callFailed |-> Failed(o)]
    [] OTHER -> HetznerParsed(p, now, o)

\* the part of getHetznerCostsReal that runs once the fetch has settled, at now
HetznerSettled(p, now, o) ==
  CASE o.kind \in {"status", "network", "invalid_json"} ->
         [st |-> "done", result |-> HetznerZero("Error", now), callFailed |-> Failed(o)]
    [] OTHER -> HetznerParsed(p, now, o)

(***************************************************************************)
(* GET /api/costs/hetzner                                                  *)
(***************************************************************************)
calculateCurrentMonthCost(created, monthlyPrice, hourlyPrice, now) ==
  LET startOfMonth == MakeDate(getFullYear(now), getMonth(now), 1, 0)
      effectiveStart == IF created > startOfMonth THEN created ELSE startOfMonth
      hoursRunning == HoursBetween(effectiveStart, now)
      hourlyTotal == MScale(hoursRunning, hourlyPrice)
  IN  MMin(hourlyTotal, monthlyPrice)

\* the body of every answer that carries an error
InfraEmpty(error, now) ==
  [error |-> error, servers |-> <<>>, totalMonthly |-> MZero,
   totalCurrentMonth |-> MZero, lastUpdated |-> now]

\* one element of result.servers
InfraRow(server, now) ==
  [created |-> server.created,
   priceHourly |-> PriceHourly(server),
   priceMonthly |-> PriceMonthly(server),
   currentMonthCost |-> calculateCurrentMonthCost(server.created, PriceMonthly(server),
                                                  PriceHourly(server), now)]

\* (variant: the totals are those of the first server)
SumOfFirst(rows, field) == IF rows = <<>> THEN MZero ELSE Head(rows)[field]

RECURSIVE SumOf(_, _)
\* rows.reduce((sum, s) => sum + s[field], 0)
SumOf(rows, field) ==
  IF rows = <<>> THEN MZero ELSE MAdd(Head(rows)[field], SumOf(Tail(rows), field))

\* GET of costs/hetzner up to its fetch
InfraStart(hasToken, now) ==
  IF ~hasToken
  THEN [st |-> "done",
        response |-> [status |-> 200, body |-> InfraEmpty("HETZNER_API_TOKEN not configured", now)]]
  ELSE [st |-> "pending"]

\* GET of costs/hetzner once its fetch has settled, at now; a server without
\* server_type, datacenter or public_net throws inside servers.map
InfraSettled(now, o) ==
  LET servers == IF o.kind \in {"ok", "malformed"} /\ "servers" \in DOMAIN o.data
                 THEN o.data.servers ELSE <<>>
      rows == [i \in 1..Len(servers) |-> InfraRow(servers[i], now)]
      body ==
        CASE o.kind = "status" -> InfraEmpty("Hetzner API error", now)
          [] o.kind \in {"network", "invalid_json"} -> InfraEmpty("Error fetching Hetzner data", now)
          [] \E i \in 1..Len(servers) :
               {"server_type", "datacenter", "public_net"} \ DOMAIN servers[i] # {}
               -> InfraEmpty("Error fetching Hetzner data", now)
          [] OTHER -> [servers |-> rows,
                       totalMonthly |-> SumOf(rows, "priceMonthly"),
                       totalCurrentMonth |-> SumOf(rows, "currentMonthCost"),
                       lastUpdated |-> now]
  IN  [st |-> "done", o |-> o, response |-> [status |-> 200, body |-> body]]

(***************************************************************************)
(* State of one request to GET /api/costs                                  *)
(***************************************************************************)
VARIABLES
  env,          \* process.env: which credentials are configured
  clock,        \* the wall clock read by new Date()
  elapsed,      \* ticks of the clock since the request arrived
  pc,           \* position of GET: "idle", "awaiting" (the Promise.all), "done"
  period,       \* the period GET resolved from the query string
  vapiTask,     \* the promise of getVAPICosts and the locals it holds
  gcpTask,      \* the promise of getGCPCosts, with its two nested queries
  hetznerTask,  \* the promise of getHetznerCostsReal
  response,     \* the response of GET, status 0 while there is none
  log,          \* history: the query string of the request and the remote calls
                \* settled so far, in order of completion
  infra,        \* one request to GET /api/costs/hetzner and its response
  page,         \* the Dashboard component in the browser: its React state and
                \* the fetches of /api/costs it has in flight
  auth          \* the login route and the middleware: the admin credentials of
                \* process.env, the browser's gps_auth cookie, and the latest
                \* request each of the two has answered

vars == <<env, clock, elapsed, pc, period, vapiTask, gcpTask, hetznerTask, response, log,
          infra, page, auth>>

\* the state of the other routes and of the page, which GET /api/costs never touches
others == <<infra, page, auth>>

\* the state of Dashboard after its first render; lastEvent is history: the
\* latest start or completion of fetchCosts
PageMounted ==
  [activeTab |-> "apps", period |-> "month", costs |-> NullValue, loading |-> FALSE,
   error |-> NullValue, inflight |-> {}, issued |-> 0, lastEvent |-> [what |-> "none"]]

\* process.env as the login route reads it: "" stands for a variable that is
\* unset or empty
DefaultAdmin == [ADMIN_USERNAME |-> "", ADMIN_PASSWORD |-> "", NODE_ENV |-> "production"]

\* the server has started and the browser holds no cookie; mw and login are
\* the latest request answered by the middleware and by the login route
AuthBoot(cfg) ==
  [config |-> cfg, jar |-> NullValue, mw |-> [kind |-> "none"], login |-> [status |-> 0]]

\* the history is kept only by the specifications that start with log.on
Logged(l, call, o, now) ==
  IF l.on THEN [l EXCEPT !.events = Append(@, [call |-> call, o |-> o, at |-> now])] ELSE l

(***************************************************************************)
(* Inputs: instants, query strings and upstream answers                    *)
(***************************************************************************)
MonthStart == MakeDate(2026, 2, 1, 0)
\* the month is exactly 14 days old
MidMonth == MakeDate(2026, 2, 15, 0)
\* 666 hours into the month, one hour before 5.00 / 0.0075 is passed
LateMonth == MakeDate(2026, 2, 28, 18)
\* the last hour of a day
LateNight == MakeDate(2026, 2, 28, 23)

Instants == {MidMonth, LateMonth, LateNight}
HetznerInstants == {MonthStart, MidMonth, LateMonth, LateNight}

\* searchParams.get('period'): "" stands for an absent or empty parameter
PeriodParams == Periods \cup {"", "year"}

Envs == [VAPI_API_KEY : BOOLEAN, HETZNER_API_TOKEN : BOOLEAN,
         GCP_BILLING_CREDENTIALS : {"", "garbage", "valid"}]

SeqsUpTo(S, n) == UNION {[1..k -> S] : k \in 0..n}

Failures == {[kind |-> "status"], [kind |-> "network"], [kind |-> "invalid_json"]}

\* answers of the VAPI call list
CallFull == [cost |-> Micro(50000),
             costBreakdown |-> [transport |-> Micro(1000), stt |-> Micro(9000),
                                llm |-> Micro(20000), tts |-> Micro(15000),
                                vapi |-> Micro(5000)]]
CallNoBreakdown == [cost |-> Micro(30000)]
CallPartial == [costBreakdown |-> [stt |-> Micro(2000)]]
VapiPayloads == {<<>>, <<CallFull, CallNoBreakdown>>, <<CallPartial>>}
VapiOutcomes == Failures
                \cup {[kind |-> "text_error"],
                      [kind |-> "malformed", body |-> [object |-> "error"]],
                      [kind |-> "malformed", body |-> [array |-> <<CallFull, NullValue>>]]}
                \cup {[kind |-> "ok", body |-> [array |-> c]] : c \in VapiPayloads}

\* answers of the monitoring API
ComputePayloads == {<<>>, <<[points |-> <<1, 1>>]>>,
                    <<[points |-> <<1, 1>>], [points |-> <<1, 1, 1>>]>>}
ComputeOutcomes == Failures \cup {[kind |-> "auth_error"]}
                   \cup {[kind |-> "ok", timeSeries |-> ts] : ts \in ComputePayloads}
RequestPayloads == {<<>>, <<[points |-> <<150, 250>>]>>}
RequestOutcomes == Failures \cup {[kind |-> "auth_error"]}
                   \cup {[kind |-> "ok", timeSeries |-> ts] : ts \in RequestPayloads}
CpuPayloads == {<<>>, <<[points |-> <<40>>], [labels |-> "no points"]>>}
CpuOutcomes == Failures \cup {[kind |-> "ok", timeSeries |-> ts] : ts \in CpuPayloads}

\* answers of the Hetzner server list
Cx22Prices == <<[location |-> "fsn1", price_hourly |-> Micro(7500), price_monthly |-> Micro(5000000)],
                [location |-> "ash", price_hourly |-> Micro(9000), price_monthly |-> Micro(6000000)]>>
Server(created, location) ==
  [created |-> created,
   server_type |-> [name |-> "CX22", prices |-> Cx22Prices],
   datacenter |-> [location |-> [name |-> location]]]
\* creation instants: before 2024, months ago, at the start of the month,
\* inside the month, inside the last day
CreatedLongAgo == MakeDate(2023, 10, 10, 9)
CreatedLastYear == MakeDate(2025, 11, 20, 10)
CreatedThisMonth == MakeDate(2026, 2, 10, 12)
CreatedToday == MakeDate(2026, 2, 28, 20)
MainServers == {Server(CreatedLastYear, "ash"), Server(CreatedThisMonth, "hel1")}
AllServers == {Server(c, l) : c \in {CreatedLongAgo, CreatedLastYear, MonthStart,
                                     CreatedThisMonth, CreatedToday},
                              l \in {"fsn1", "ash"}}
HetznerOutcomesOver(S) ==
  Failures
  \cup {[kind |-> "malformed", data |-> [error |-> "no servers property"]],
        [kind |-> "malformed", data |-> [servers |-> <<[name |-> "no server_type"]>>]]}
  \cup {[kind |-> "ok", data |-> [servers |-> inv]] : inv \in SeqsUpTo(S, MaxServers)}

(***************************************************************************)
(* Init and the steps of GET                                               *)
(***************************************************************************)
Idle == [st |-> "idle"]

InitOver(E, I) ==
  /\ page = PageMounted
  /\ infra = [st |-> "idle"]
  /\ auth = AuthBoot(DefaultAdmin)
  /\ log = [on |-> FALSE, raw |-> "", events |-> <<>>]
  /\ env \in E
  /\ clock \in I
  /\ elapsed = 0
  /\ pc = "idle"
  /\ period = ""
  /\ vapiTask = Idle
  /\ gcpTask = Idle
  /\ hetznerTask = Idle
  /\ response = [status |-> 0]

Init == InitOver(Envs, Instants)

\* (variant: the default of the earlier getDateRange callers, everything)
GETDefaultingToAll(raw) ==
  /\ pc = "idle"
  /\ LET p == IF raw = "" THEN "all" ELSE raw
     IN  /\ period' = p
         /\ vapiTask' = VapiStart(env.VAPI_API_KEY, p, clock)
         /\ gcpTask' = GcpStart(env.GCP_BILLING_CREDENTIALS, p, clock)
         /\ hetznerTask' = HetznerStart(env.HETZNER_API_TOKEN, clock)
  /\ pc' = "awaiting"
  /\ log' = IF log.on THEN [log EXCEPT !.raw = raw] ELSE log
  /\ UNCHANGED <<env, clock, elapsed, response>>
  /\ UNCHANGED others

\* GET reads the query string and calls the three estimators; each runs up
\* to its first await
GET(raw) ==
  /\ pc = "idle"
  /\ LET p == IF raw = "" THEN "month" ELSE raw
     IN  /\ period' = p
         /\ vapiTask' = VapiStart(env.VAPI_API_KEY, p, clock)
         /\ gcpTask' = GcpStart(env.GCP_BILLING_CREDENTIALS, p, clock)
         /\ hetznerTask' = HetznerStart(env.HETZNER_API_TOKEN, clock)
  /\ pc' = "awaiting"
  /\ log' = IF log.on THEN [log EXCEPT !.raw = raw] ELSE log
  /\ UNCHANGED <<env, clock, elapsed, response>>
  /\ UNCHANGED others

\* time passes while GET awaits
Tick ==
  /\ pc = "awaiting"
  /\ elapsed < MaxElapsed
  /\ clock' = clock + 1
  /\ elapsed' = elapsed + 1
  /\ UNCHANGED <<env, pc, period, vapiTask, gcpTask, hetznerTask, response, log>>
  /\ UNCHANGED others

VapiFetchSettles(o) ==
  /\ pc = "awaiting"
  /\ vapiTask.st = "pending"
  /\ vapiTask' = VapiSettled(vapiTask, o)
  /\ log' = Logged(log, "vapi", o, clock)
  /\ UNCHANGED <<env, clock, elapsed, pc, period, gcpTask, hetznerTask, response>>
  /\ UNCHANGED others

ComputeMetricsSettles(o) ==
  /\ pc = "awaiting"
  /\ gcpTask.st = "pending"
  /\ gcpTask.compute.st = "pending"
  /\ gcpTask' = GcpJoin([gcpTask EXCEPT !.compute = ComputeSettled(o)])
  /\ log' = Logged(log, "compute", o, clock)
  /\ UNCHANGED <<env, clock, elapsed, pc, period, vapiTask, hetznerTask, response>>
  /\ UNCHANGED others

CloudRunRequestsSettles(o) ==
  /\ pc = "awaiting"
  /\ gcpTask.st = "pending"
  /\ gcpTask.cloudRun.st = "pending"
  /\ gcpTask.cloudRun.stage = "requests"
  /\ gcpTask' = GcpJoin([gcpTask EXCEPT !.cloudRun = CloudRunRequestsSettled(gcpTask.cloudRun, o)])
  /\ log' = Logged(log, "requests", o, clock)
  /\ UNCHANGED <<env, clock, elapsed, pc, period, vapiTask, hetznerTask, response>>
  /\ UNCHANGED others

CloudRunCpuSettles(o) ==
  /\ pc = "awaiting"
  /\ gcpTask.st = "pending"
  /\ gcpTask.cloudRun.st = "pending"
  /\ gcpTask.cloudRun.stage = "cpu"
  /\ gcpTask' = GcpJoin([gcpTask EXCEPT !.cloudRun = CloudRunCpuSettled(gcpTask.cloudRun, o)])
  /\ log' = Logged(log, "cpu", o, clock)
  /\ UNCHANGED <<env, clock, elapsed, pc, period, vapiTask, hetznerTask, response>>
  /\ UNCHANGED others

HetznerFetchSettles(o) ==
  /\ pc = "awaiting"
  /\ hetznerTask.st = "pending"
  /\ hetznerTask' = HetznerSettled(period, clock, o)
  /\ log' = Logged(log, "hetzner", o, clock)
  /\ UNCHANGED <<env, clock, elapsed, pc, period, vapiTask, gcpTask, response>>
  /\ UNCHANGED others

Tasks == <<vapiTask, gcpTask, hetznerTask>>

\* (variant: the sum of the route before the OpenClaw estimate was added)
TotalMonthOfThree(vapi, cloudRun, chatwoot, openclaw) ==
  MAdd(MAdd(vapi.total, cloudRun.total), chatwoot.total)

\* vapi.total + cloudRun.total + chatwoot.total + openclaw.total
TotalMonth(vapi, cloudRun, chatwoot, openclaw) ==
  MAdd(MAdd(MAdd(vapi.total, cloudRun.total), chatwoot.total), openclaw.total)

\* the body of the response built after the Promise.all
CostsBody(vapi, gcpCosts, chatwoot, p, now) ==
  [vapi |-> vapi,
   cloudRun |-> gcpCosts.cloudRun,
   chatwoot |-> chatwoot,
   openclaw |-> gcpCosts.openclaw,
   totalMonth |-> TotalMonth(vapi, gcpCosts.cloudRun, chatwoot, gcpCosts.openclaw),
   period |-> p,
   timestamp |-> now]

\* (variant: GET gives up on the calls still pending once the clock has moved)
GETResumesOrTimesOut ==
  /\ pc = "awaiting"
  /\ \/ \E i \in 1..3 : Tasks[i].st = "rejected"
     \/ \A i \in 1..3 : Tasks[i].st = "done"
     \/ elapsed > 0
  /\ response' = IF \E i \in 1..3 : Tasks[i].st = "rejected"
                 THEN [status |-> 500, body |-> [error |-> "Error fetching costs"]]
                 ELSE IF \A i \in 1..3 : Tasks[i].st = "done"
                 THEN [status |-> 200,
                       body |-> CostsBody(vapiTask.result, gcpTask.result,
                                          hetznerTask.result, period, clock)]
                 ELSE [status |-> 504, body |-> [error |-> "timeout"]]
  /\ pc' = "done"
  /\ UNCHANGED <<env, clock, elapsed, period, vapiTask, gcpTask, hetznerTask, log>>
  /\ UNCHANGED others

\* GET resumes: the Promise.all is fulfilled when every estimator has
\* returned and rejected as soon as one has thrown
GETResumes ==
  /\ pc = "awaiting"
  /\ \/ \E i \in 1..3 : Tasks[i].st = "rejected"
     \/ \A i \in 1..3 : Tasks[i].st = "done"
  /\ response' = IF \E i \in 1..3 : Tasks[i].st = "rejected"
                 THEN [status |-> 500, body |-> [error |-> "Error fetching costs"]]
                 ELSE [status |-> 200,
                       body |-> CostsBody(vapiTask.result, gcpTask.result,
                                          hetznerTask.result, period, clock)]
  /\ pc' = "done"
  /\ UNCHANGED <<env, clock, elapsed, period, vapiTask, gcpTask, hetznerTask, log>>
  /\ UNCHANGED others

Next ==
  \/ \E raw \in PeriodParams : GET(raw)
  \/ Tick
  \/ \E o \in VapiOutcomes : VapiFetchSettles(o)
  \/ \E o \in ComputeOutcomes : ComputeMetricsSettles(o)
  \/ \E o \in RequestOutcomes : CloudRunRequestsSettles(o)
  \/ \E o \in CpuOutcomes : CloudRunCpuSettles(o)
  \/ \E o \in HetznerOutcomesOver(MainServers) : HetznerFetchSettles(o)
  \/ GETResumes

Spec == Init /\ [][Next]_vars

(***************************************************************************)
(* The route with only the VAPI key configured, at every hour of the first *)
(* HorizonDays days of 2024                                                *)
(***************************************************************************)
RangeInstants == {h : h \in 0..(HorizonDays * 24 - 1)}
VapiOnly == [VAPI_API_KEY |-> TRUE, HETZNER_API_TOKEN |-> FALSE, GCP_BILLING_CREDENTIALS |-> ""]
InitVapi == InitOver({VapiOnly}, RangeInstants)
NextVapi ==
  \/ \E raw \in PeriodParams : GET(raw)
  \/ Tick
  \/ \E o \in VapiOutcomes : VapiFetchSettles(o)
  \/ GETResumes
SpecVapi == InitVapi /\ [][NextVapi]_vars

(***************************************************************************)
(* The route with only the Hetzner token configured, over inventories of   *)
(* servers of every age                                                    *)
(***************************************************************************)
HetznerOnly == [VAPI_API_KEY |-> FALSE, HETZNER_API_TOKEN |-> TRUE, GCP_BILLING_CREDENTIALS |-> ""]
InitHetzner == InitOver({HetznerOnly}, HetznerInstants)
NextHetzner ==
  \/ \E raw \in PeriodParams : GET(raw)
  \/ Tick
  \/ \E o \in HetznerOutcomesOver(AllServers) : HetznerFetchSettles(o)
  \/ GETResumes
SpecHetzner == InitHetzner /\ [][NextHetzner]_vars

(***************************************************************************)
(* The route with every credential configured, keeping the history of the  *)
(* order in which the remote calls complete                                *)
(***************************************************************************)
AllConfigured == [VAPI_API_KEY |-> TRUE, HETZNER_API_TOKEN |-> TRUE, GCP_BILLING_CREDENTIALS |-> "valid"]
InitOrder ==
  /\ page = PageMounted
  /\ infra = [st |-> "idle"]
  /\ auth = AuthBoot(DefaultAdmin)
  /\ log = [on |-> TRUE, raw |-> "", events |-> <<>>]
  /\ env = AllConfigured
  /\ clock = LateMonth
  /\ elapsed = 0
  /\ pc = "idle"
  /\ period = ""
  /\ vapiTask = Idle
  /\ gcpTask = Idle
  /\ hetznerTask = Idle
  /\ response = [status |-> 0]
\* one failure and one good answer for every remote call
OrderVapiOutcomes ==
  {[kind |-> "network"], [kind |-> "ok", body |-> [array |-> <<CallFull, CallNoBreakdown>>]]}
OrderComputeOutcomes ==
  {[kind |-> "status"], [kind |-> "ok", timeSeries |-> <<[points |-> <<1, 1>>]>>]}
OrderRequestOutcomes ==
  {[kind |-> "auth_error"], [kind |-> "ok", timeSeries |-> <<[points |-> <<150, 250>>]>>]}
OrderCpuOutcomes ==
  {[kind |-> "status"], [kind |-> "ok", timeSeries |-> <<[points |-> <<40>>]>>]}
OrderHetznerOutcomes ==
  {[kind |-> "status"],
   [kind |-> "ok", data |-> [servers |-> <<Server(CreatedThisMonth, "fsn1")>>]]}
NextOrder ==
  \/ \E raw \in {"", "month", "all"} : GET(raw)
  \/ Tick
  \/ \E o \in OrderVapiOutcomes : VapiFetchSettles(o)
  \/ \E o \in OrderComputeOutcomes : ComputeMetricsSettles(o)
  \/ \E o \in OrderRequestOutcomes : CloudRunRequestsSettles(o)
  \/ \E o \in OrderCpuOutcomes : CloudRunCpuSettles(o)
  \/ \E o \in OrderHetznerOutcomes : HetznerFetchSettles(o)
  \/ GETResumes
SpecOrder == InitOrder /\ [][NextOrder]_vars

\* every remote call that was issued settles in the end, and the continuation
\* of a settled Promise.all is run
Fairness ==
  /\ WF_vars(\E o \in OrderVapiOutcomes : VapiFetchSettles(o))
  /\ WF_vars(\E o \in OrderComputeOutcomes : ComputeMetricsSettles(o))
  /\ WF_vars(\E o \in OrderRequestOutcomes : CloudRunRequestsSettles(o))
  /\ WF_vars(\E o \in OrderCpuOutcomes : CloudRunCpuSettles(o))
  /\ WF_vars(\E o \in OrderHetznerOutcomes : HetznerFetchSettles(o))
  /\ WF_vars(GETResumes)
InitLive == InitOver(Envs, Instants)
SpecLive == InitLive /\ [][NextOrder]_vars /\ Fairness

(***************************************************************************)
(* GET /api/costs/hetzner, next to a request to GET /api/costs             *)
(***************************************************************************)
costsVars == <<pc, period, vapiTask, gcpTask, hetznerTask, response, log>>

InfraGET ==
  /\ infra.st = "idle"
  /\ infra' = InfraStart(env.HETZNER_API_TOKEN, clock)
  /\ UNCHANGED <<env, clock, elapsed, page, auth>>
  /\ UNCHANGED costsVars

\* time passes while GET of costs/hetzner awaits
InfraTick ==
  /\ infra.st = "pending"
  /\ elapsed < MaxElapsed
  /\ clock' = clock + 1
  /\ elapsed' = elapsed + 1
  /\ UNCHANGED <<env, infra, page, auth>>
  /\ UNCHANGED costsVars

InfraFetchSettles(o) ==
  /\ infra.st = "pending"
  /\ infra' = InfraSettled(clock, o)
  /\ UNCHANGED <<env, clock, elapsed, page, auth>>
  /\ UNCHANGED costsVars

\* the server list as the provider sends it, and lists with a piece missing
InfraServer(created, location) ==
  [created |-> created,
   server_type |-> [name |-> "CX22", prices |-> Cx22Prices],
   datacenter |-> [location |-> [name |-> location]],
   public_net |-> [ipv4 |-> [ip |-> "178.156.255.182"]]]
InfraServers == {InfraServer(c, l) : c \in {CreatedLastYear, MonthStart, CreatedThisMonth,
                                            CreatedToday},
                                    l \in {"fsn1", "hel1"}}
InfraOutcomes ==
  Failures
  \cup {[kind |-> "malformed", data |-> [error |-> "no servers property"]],
        [kind |-> "malformed", data |-> [servers |-> <<[name |-> "no server_type"]>>]],
        [kind |-> "malformed", data |-> [servers |-> <<Server(CreatedLastYear, "fsn1")>>]]}
  \cup {[kind |-> "ok", data |-> [servers |-> <<InfraServer(CreatedLastYear, "ash"),
                                                InfraServer(CreatedThisMonth, "hel1")>>]]}
  \cup {[kind |-> "ok", data |-> [servers |-> inv]] : inv \in SeqsUpTo(InfraServers, MaxServers)}

InitInfra == InitOver({HetznerOnly, VapiOnly}, HetznerInstants)
NextInfra ==
  \/ InfraGET
  \/ InfraTick
  \/ \E o \in InfraOutcomes : InfraFetchSettles(o)
  \/ \E raw \in {"", "all"} : GET(raw)
  \/ Tick
  \/ \E o \in OrderVapiOutcomes : VapiFetchSettles(o)
  \/ \E o \in OrderHetznerOutcomes : HetznerFetchSettles(o)
  \/ GETResumes
SpecInfra == InitInfra /\ [][NextInfra]_vars

(***************************************************************************)
(* getVAPICosts over call lists of every composition, keeping the answer   *)
(***************************************************************************)
CallLists == SeqsUpTo({CallFull, CallNoBreakdown, CallPartial}, MaxCalls)
CallsOutcomes == Failures \cup {[kind |-> "ok", body |-> [array |-> c]] : c \in CallLists}
InitCalls ==
  /\ page = PageMounted
  /\ infra = [st |-> "idle"]
  /\ auth = AuthBoot(DefaultAdmin)
  /\ log = [on |-> TRUE, raw |-> "", events |-> <<>>]
  /\ env = VapiOnly
  /\ clock \in Instants
  /\ elapsed = 0
  /\ pc = "idle"
  /\ period = ""
  /\ vapiTask = Idle
  /\ gcpTask = Idle
  /\ hetznerTask = Idle
  /\ response = [status |-> 0]
NextCalls ==
  \/ \E raw \in PeriodParams : GET(raw)
  \/ Tick
  \/ \E o \in CallsOutcomes : VapiFetchSettles(o)
  \/ GETResumes
SpecCalls == InitCalls /\ [][NextCalls]_vars

(***************************************************************************)
(* getGCPCosts with working credentials in the first hours of a day, over  *)
(* monitoring answers with one and with two instances                      *)
(***************************************************************************)
\* answers with no instance, one instance and two instances, one point an hour
\* for each instance that ran during two hours
UptimeComputeOutcomes ==
  Failures
  \cup {[kind |-> "ok", timeSeries |-> ts] :
          ts \in {<<>>, <<[points |-> <<1, 1>>]>>,
                  <<[points |-> <<1, 1>>], [points |-> <<1, 1>>]>>}}
\* only the GCP credentials configured; two hours into a day, and late in a month
InitUptime ==
  InitOver({[VAPI_API_KEY |-> FALSE, HETZNER_API_TOKEN |-> FALSE,
             GCP_BILLING_CREDENTIALS |-> "valid"]},
           {MakeDate(2026, 2, 15, 2), LateMonth})
NextUptime ==
  \/ \E raw \in PeriodParams : GET(raw)
  \/ Tick
  \/ \E o \in UptimeComputeOutcomes : ComputeMetricsSettles(o)
  \/ \E o \in OrderRequestOutcomes : CloudRunRequestsSettles(o)
  \/ \E o \in OrderCpuOutcomes : CloudRunCpuSettles(o)
  \/ GETResumes
SpecUptime == InitUptime /\ [][NextUptime]_vars

(***************************************************************************)
(* GET /api/costs and GET /api/costs/hetzner answering from the same       *)
(* server lists                                                            *)
(***************************************************************************)
InitProration == InitOver({HetznerOnly}, HetznerInstants)
NextProration ==
  \/ \E raw \in {"", "month"} : GET(raw)
  \/ Tick
  \/ \E o \in InfraOutcomes : HetznerFetchSettles(o)
  \/ GETResumes
  \/ InfraGET
  \/ InfraTick
  \/ \E o \in InfraOutcomes : InfraFetchSettles(o)
SpecProration == InitProration /\ [][NextProration]_vars

(***************************************************************************)
(* The dashboard page                                                      *)
(***************************************************************************)
\* fetchCosts up to its await: the request carries the period of the render
fetchCosts(pg) ==
  [pg EXCEPT !.loading = TRUE,
             !.error = NullValue,
             !.inflight = @ \cup {[id |-> pg.issued + 1, period |-> pg.period]},
             !.issued = @ + 1,
             !.lastEvent = [what |-> "start", id |-> pg.issued + 1]]

\* (variant: the effect without the test of the active tab)
useEffectOnEveryTab(pg) == fetchCosts(pg)

\* the effect on [activeTab, period], run after a render that changed either
useEffect(pg) == IF pg.activeTab = "costs" THEN fetchCosts(pg) ELSE pg

\* fetchCosts from the await on, for the request f and its outcome o
fetchCostsSettled(pg, f, o) ==
  LET done == [pg EXCEPT !.loading = FALSE, !.inflight = @ \ {f}]
  IN  IF o.kind = "ok"
      THEN [done EXCEPT !.costs = [period |-> f.period, figures |-> o.figures],
                        !.lastEvent = [what |-> "ok", id |-> f.id]]
      ELSE [done EXCEPT !.error = [message |-> "Error cargando costos"],
                        !.lastEvent = [what |-> "failed", id |-> f.id]]

\* answers of /api/costs as the page sees them
PageOutcomes ==
  {[kind |-> "ok", figures |-> "live"], [kind |-> "ok", figures |-> "estimated"],
   [kind |-> "status"], [kind |-> "network"], [kind |-> "invalid_json"]}

pageFrame == <<env, clock, elapsed, pc, period, vapiTask, gcpTask, hetznerTask, response, log,
               infra, auth>>

\* a click on a tab: setActiveTab, the render and the effect
ClickTab(tab) ==
  /\ tab = "costs" /\ page.activeTab # "costs" => page.issued < MaxFetches
  /\ page' = IF tab = page.activeTab THEN page
             ELSE useEffect([page EXCEPT !.activeTab = tab])
  /\ UNCHANGED pageFrame

\* a click on a period button, rendered in the costs tab only: setPeriod, the
\* render and the effect
ClickPeriod(p) ==
  /\ page.activeTab = "costs"
  /\ p # page.period => page.issued < MaxFetches
  /\ page' = IF p = page.period THEN page
             ELSE useEffect([page EXCEPT !.period = p])
  /\ UNCHANGED pageFrame

PageFetchSettles(f, o) ==
  /\ f \in page.inflight
  /\ page' = fetchCostsSettled(page, f, o)
  /\ UNCHANGED pageFrame

InitPage == InitOver({VapiOnly}, {MidMonth})
NextPage ==
  \/ \E tab \in {"apps", "costs"} : ClickTab(tab)
  \/ \E p \in Periods : ClickPeriod(p)
  \/ \E f \in [id : 1..MaxFetches, period : Periods], o \in PageOutcomes : PageFetchSettles(f, o)
SpecPage == InitPage /\ [][NextPage]_vars

(***************************************************************************)
(* The middleware and POST /api/auth/login                                 *)
(***************************************************************************)
publicPaths == <<"/login", "/api/auth/login", "/api/costs">>

\* String.prototype.startsWith
startsWith(str, prefix) ==
  Len(str) >= Len(prefix) /\ SubSeq(str, 1, Len(prefix)) = prefix

\* middleware: authCookie is request.cookies.get('gps_auth'), null when the
\* request carries no such cookie
middleware(pathname, authCookie) ==
  IF \E i \in 1..Len(publicPaths) : startsWith(pathname, publicPaths[i])
  THEN [kind |-> "next"]
  ELSE IF IsNull(authCookie) \/ authCookie.value # "authenticated"
  THEN [kind |-> "redirect", location |-> "/login"]
  ELSE [kind |-> "next"]

\* process.env.ADMIN_USERNAME || 'admin'
VALID_USERNAME(cfg) == IF cfg.ADMIN_USERNAME # "" THEN cfg.ADMIN_USERNAME ELSE "admin"
\* process.env.ADMIN_PASSWORD || 'gps2026'
VALID_PASSWORD(cfg) == IF cfg.ADMIN_PASSWORD # "" THEN cfg.ADMIN_PASSWORD ELSE "gps2026"

\* a === b for a property of the parsed body, undefined when it is absent
PropertyIs(obj, key, value) == key \in DOMAIN obj /\ obj[key] = value

LoginGranted(cfg) ==
  [status |-> 200,
   body |-> [success |-> TRUE],
   cookies |-> [gps_auth |-> [value |-> "authenticated",
                              httpOnly |-> TRUE,
                              secure |-> cfg.NODE_ENV = "production",
                              sameSite |-> "lax",
                              maxAge |-> 60 * 60 * 24 * 7,
                              path |-> "/"]]]
LoginRefused(status, error) ==
  [status |-> status, body |-> [error |-> error], cookies |-> <<>>]

\* (variant: the password is not compared)
POSTCheckingUsernameOnly(cfg, b) ==
  CASE b.kind = "invalid_json" -> LoginRefused(500, "Error en el servidor")
    [] IsNull(b.value) -> LoginRefused(500, "Error en el servidor")
    [] PropertyIs(b.value, "username", VALID_USERNAME(cfg)) -> LoginGranted(cfg)
    [] OTHER -> LoginRefused(401, "Credenciales invalidas")

\* POST of the login route for the request body b: request.json() rejects for
\* a body that is not JSON, and destructuring the JSON value null throws
POST(cfg, b) ==
  CASE b.kind = "invalid_json" -> LoginRefused(500, "Error en el servidor")
    [] IsNull(b.value) -> LoginRefused(500, "Error en el servidor")
    [] PropertyIs(b.value, "username", VALID_USERNAME(cfg))
         /\ PropertyIs(b.value, "password", VALID_PASSWORD(cfg)) -> LoginGranted(cfg)
    [] OTHER -> LoginRefused(401, "Credenciales invalidas")

authFrame == <<env, clock, elapsed, pc, period, vapiTask, gcpTask, hetznerTask, response, log,
               infra, page>>

\* paths the matcher hands to the middleware
Pathnames ==
  {"/", "/log", "/login", "/login/", "/login/help", "/login-audit", "/logins",
   "/api/auth/login", "/api/auth/logout", "/api/auth",
   "/api/costs", "/api/costs/hetzner", "/api/costs-export", "/api/infra", "/dashboard"}

\* a request reaches the middleware, from the browser with the cookie it
\* holds or from a client that sends a cookie of its own making
MiddlewareRuns(pathname, authCookie) ==
  /\ authCookie = auth.jar \/ ~IsNull(authCookie)
  /\ auth' = [auth EXCEPT !.mw = [pathname |-> pathname, cookie |-> authCookie]
                                 @@ middleware(pathname, authCookie)]
  /\ UNCHANGED authFrame

\* request bodies: not JSON, the JSON null, and objects with or without the
\* two properties
LoginBodies ==
  LET names == {"admin", "root", "guest"}
      passwords == {"gps2026", "s3cret", ""}
  IN  {[kind |-> "invalid_json"], [kind |-> "json", value |-> NullValue],
       [kind |-> "json", value |-> <<>>]}
      \cup {[kind |-> "json", value |-> [username |-> u]] : u \in names}
      \cup {[kind |-> "json", value |-> [password |-> pw]] : pw \in passwords}
      \cup {[kind |-> "json", value |-> [username |-> u, password |-> pw]] :
              u \in names, pw \in passwords}

\* the login route answers a request; the browser stores the cookie it sets
LoginPOST(b) ==
  /\ LET answer == POST(auth.config, b)
     IN  auth' = [auth EXCEPT !.login = [request |-> b] @@ answer,
                              !.jar = IF "gps_auth" \in DOMAIN answer.cookies
                                      THEN [value |-> answer.cookies.gps_auth.value]
                                      ELSE @]
  /\ UNCHANGED authFrame

\* the admin credentials are the defaults or those of process.env
InitAuth ==
  /\ auth \in {AuthBoot(cfg) : cfg \in [ADMIN_USERNAME : {"", "root"},
                                        ADMIN_PASSWORD : {"", "s3cret"},
                                        NODE_ENV : {"production"}]}
  /\ page = PageMounted
  /\ infra = [st |-> "idle"]
  /\ log = [on |-> FALSE, raw |-> "", events |-> <<>>]
  /\ env = VapiOnly
  /\ clock = MidMonth
  /\ elapsed = 0
  /\ pc = "idle"
  /\ period = ""
  /\ vapiTask = Idle
  /\ gcpTask = Idle
  /\ hetznerTask = Idle
  /\ response = [status |-> 0]
\* a client sends the cookie value of the login route, one that differs from
\* it in case, an empty one or one of its own
NextAuth ==
  \/ \E pathname \in Pathnames, v \in {"authenticated", "Authenticated", "", "1"} :
       MiddlewareRuns(pathname, [value |-> v])
  \/ \E pathname \in Pathnames : MiddlewareRuns(pathname, NullValue)
  \/ \E b \in LoginBodies : LoginPOST(b)
SpecAuth == InitAuth /\ [][NextAuth]_vars

(***************************************************************************)
(* Properties                                                              *)
(***************************************************************************)
Body == response.body
IsLive(estimate) == Truthy(estimate, "isRealData")
HasRange(task) == "range" \in DOMAIN task
CallFailed(task) == Truthy(task, "callFailed")

\* C1: in every 200 response of GET /api/costs, whatever the period and the
\* outcomes of the upstream calls, totalMonth is the sum of the total fields
\* of the vapi, cloudRun, chatwoot and openclaw estimates of that response.
C1_TotalMonthIsSumOfTotals ==
  response.status = 200 =>
    Body.totalMonth = MAdd(Body.vapi.total,
                           MAdd(Body.cloudRun.total,
                                MAdd(Body.chatwoot.total, Body.openclaw.total)))

\* a response in which all four estimates are live and non-zero
C1_Witness ==
  /\ response.status = 200
  /\ IsLive(Body.vapi) /\ IsLive(Body.cloudRun) /\ IsLive(Body.chatwoot) /\ IsLive(Body.openclaw)
  /\ \A k \in {"vapi", "cloudRun", "chatwoot", "openclaw"} : Body[k].total # MZero

\* C2: no outcome of the VAPI, monitoring and Hetzner calls makes GET answer
\* with the generic 500 error: no estimator throws, and once GET has answered
\* the status is 200 and the body carries vapi, cloudRun, chatwoot, openclaw,
\* totalMonth and timestamp.
C2_NoServerErrorFromUpstreams ==
  /\ \A i \in 1..3 : Tasks[i].st # "rejected"
  /\ response.status \in {0, 200}
  /\ pc = "done" =>
       /\ response.status = 200
       /\ {"vapi", "cloudRun", "chatwoot", "openclaw", "totalMonth", "timestamp"}
            \subseteq DOMAIN Body

\* GET has answered although every upstream call of the request failed
C2_Witness ==
  /\ pc = "done"
  /\ CallFailed(vapiTask)
  /\ CallFailed(hetznerTask)
  /\ "compute" \in DOMAIN gcpTask /\ CallFailed(gcpTask.compute)
  /\ "cloudRun" \in DOMAIN gcpTask /\ CallFailed(gcpTask.cloudRun)

C4_AllStartIsFixed ==
  period = "all" =>
    \A i, j \in 1..3 :
      HasRange(Tasks[i]) /\ HasRange(Tasks[j]) => Tasks[i].range.start = Tasks[j].range.start

\* C5: when the range resolved for getVAPICosts is longer than 14 days the
\* query starts at end minus 14 days and the result returned has
\* limitedTo14Days = true; when it is 14 days or shorter the query starts at
\* the resolved start and limitedTo14Days is false.
\* (A result built in the catch block always has limitedTo14Days = false.)
C5_FourteenDayCapReported ==
  HasRange(vapiTask) =>
    LET r == vapiTask.range
        long == r.end - r.start > 14 * 24
    IN  /\ vapiTask.query.createdAtGt = (IF long THEN r.end - 14 * 24 ELSE r.start)
        /\ vapiTask.query.createdAtLt = r.end
        /\ vapiTask.st = "done" => vapiTask.result.limitedTo14Days = long

\* hours of the period that have elapsed at now, from the calendar
ElapsedInPeriod(p, now) ==
  CASE p = "today" -> getHours(now)
    [] p = "week"  -> 7 * 24
    [] p = "month" -> (getDate(now) - 1) * 24 + getHours(now)
    [] p = "all"   -> (now \div 24) * 24
    [] OTHER       -> 0

NoCredentials ==
  ~env.VAPI_API_KEY /\ ~env.HETZNER_API_TOKEN /\ env.GCP_BILLING_CREDENTIALS = ""

\* C6: with no credential configured for any service, no estimate of the
\* response is flagged live, vapi.total and chatwoot.total are 0,
\* openclaw.total is the elapsed hours of the period at 0.03355 an hour,
\* cloudRun.total is 200 requests a day at 0.40 per million over the same
\* hours, and totalMonth is the sum of these two figures.
C6_NoCredentialsGivesStaticEstimates ==
  (NoCredentials /\ response.status = 200) =>
    LET hours == ElapsedInPeriod(Body.period, Body.timestamp - elapsed)
        openclawStatic == MScale(hours, Micro(33550))
        cloudRunStatic == MThird(MScale(hours, Nano(10000)))
    IN  /\ \A k \in {"vapi", "cloudRun", "chatwoot", "openclaw"} : ~IsLive(Body[k])
        /\ Body.vapi.total = MZero
        /\ Body.chatwoot.total = MZero
        /\ Body.openclaw.total = openclawStatic
        /\ Body.cloudRun.total = cloudRunStatic
        /\ Body.totalMonth = MAdd(openclawStatic, cloudRunStatic)

\* the example of the specification: period today, nothing configured
C6_Witness ==
  /\ NoCredentials
  /\ response.status = 200
  /\ Body.period = "today"
  /\ Body.totalMonth # MZero

HetznerListed == hetznerTask.st = "done" /\ "servers" \in DOMAIN hetznerTask

\* C7: for every period, a server created strictly inside the range of the
\* period is charged only for time from its creation onward: its cost is at
\* most the hours since its creation at the hourly rate.
\* (For period all the code charges the month of creation in full and the
\* current month from its first day.)
C7_ChargedOnlyFromCreation ==
  (HetznerListed /\ period \in Periods) =>
    \A i \in 1..Len(hetznerTask.servers) :
      LET server == hetznerTask.servers[i]
          r == hetznerTask.range
      IN  (r.start < server.created /\ server.created < r.end) =>
            MLeq(hetznerTask.result.servers[i].cost,
                 MScale(r.end - server.created, PriceHourly(server)))

\* C8: for period month the cost of a server that exists at now is the hours
\* elapsed since the later of its creation and the start of the current month
\* at the hourly rate while that is below the monthly rate, and the monthly
\* rate from then on; for a server created at the start of the month at
\* 0.0075 an hour and 5.00 a month the change is at hour 667.
C8_MonthCostIsHourlyCappedAtMonthly ==
  (HetznerListed /\ period = "month") =>
    \A i \in 1..Len(hetznerTask.servers) :
      LET server == hetznerTask.servers[i]
          now == hetznerTask.range.end
          startOfMonth == now - ((getDate(now) - 1) * 24 + getHours(now))
          since == IF server.created > startOfMonth THEN server.created ELSE startOfMonth
          hourly == MScale(now - since, PriceHourly(server))
          cost == hetznerTask.result.servers[i].cost
      IN  server.created <= now =>
            /\ cost = (IF MLt(hourly, PriceMonthly(server)) THEN hourly ELSE PriceMonthly(server))
            /\ MLeq(cost, PriceMonthly(server))
            /\ (server.created = startOfMonth /\ PriceHourly(server) = Micro(7500)
                  /\ PriceMonthly(server) = Micro(5000000)) =>
                 cost = (IF now - startOfMonth < 667
                         THEN MScale(now - startOfMonth, Micro(7500))
                         ELSE Micro(5000000))

\* a server created at the start of the month has reached the monthly rate
C8_Witness ==
  /\ HetznerListed
  /\ period = "month"
  /\ \E i \in 1..Len(hetznerTask.servers) :
       /\ hetznerTask.servers[i].created = MonthStart
       /\ MLt(PriceMonthly(hetznerTask.servers[i]),
              MScale(hetznerTask.range.end - MonthStart, PriceHourly(hetznerTask.servers[i])))
       /\ hetznerTask.result.servers[i].cost = PriceMonthly(hetznerTask.servers[i])

\* C9: whenever the remote call of an estimator fails (non-success status,
\* network failure, payload not in the expected shape) the estimator returns
\* an estimate that is not flagged live, zero-valued for VAPI and Hetzner;
\* this holds for the VAPI, Hetzner and monitoring estimators alike.
\* (A Hetzner answer without a servers property is reported as live data.)
C9_FailedCallGivesNonLiveEstimate ==
  /\ (vapiTask.st = "done" /\ CallFailed(vapiTask)) =>
       ~IsLive(vapiTask.result) /\ vapiTask.result.total = MZero
  /\ (hetznerTask.st = "done" /\ CallFailed(hetznerTask)) =>
       ~IsLive(hetznerTask.result) /\ hetznerTask.result.total = MZero
  /\ (gcpTask.st = "done" /\ "compute" \in DOMAIN gcpTask) =>
       /\ CallFailed(gcpTask.compute) => ~IsLive(gcpTask.result.openclaw)
       /\ CallFailed(gcpTask.cloudRun) => ~IsLive(gcpTask.result.cloudRun)

\* C10: the total of the Hetzner estimate is in the display currency: it is
\* the sum of the servers' period costs, which are in the provider's currency,
\* multiplied by an exchange rate n/d other than 1.
\* (The code adds the costs up without converting them.)
C10_TotalIsConvertedToDisplayCurrency ==
  (hetznerTask.st = "done" /\ IsLive(hetznerTask.result)) =>
    \E n, d \in 1..12 :
      /\ n # d
      /\ MScale(d, hetznerTask.result.total)
           = MScale(n, SumCosts(hetznerTask.result.servers))

Events == log.events
Settled(call) == \E i \in 1..Len(Events) : Events[i].call = call
Position(call) == CHOOSE i \in 1..Len(Events) : Events[i].call = call
OutcomeOf(call) == Events[Position(call)].o
\* the instant at which GET was called
Arrival == clock - elapsed

\* what each estimator returns, from the outcome of its own calls alone
ExpectedVapi ==
  VapiSettled(VapiStart(env.VAPI_API_KEY, period, Arrival), OutcomeOf("vapi")).result
ExpectedGcp ==
  LET t == GcpStart(env.GCP_BILLING_CREDENTIALS, period, Arrival)
      compute == ComputeSettled(OutcomeOf("compute"))
      first == CloudRunRequestsSettled(t.cloudRun, OutcomeOf("requests"))
      cloudRun == IF first.st = "done" THEN first
                  ELSE CloudRunCpuSettled(first, OutcomeOf("cpu"))
  IN  GcpResult(t.hoursInPeriod, compute.metrics, cloudRun.metrics)
ExpectedHetzner ==
  HetznerSettled(period, Events[Position("hetzner")].at, OutcomeOf("hetzner")).result

\* C11: GET issues the three estimators before it awaits any of them, answers
\* only after every estimator has completed, and the estimates and totalMonth
\* of the response are those given by the outcomes of the calls, whatever the
\* order in which the calls completed.
C11_ResponseIndependentOfCompletionOrder ==
  /\ pc # "idle" => \A i \in 1..3 : Tasks[i].st # "idle"
  /\ (pc = "awaiting" /\ Events = <<>>) =>
       /\ \A i \in 1..3 : Tasks[i].st = "pending"
       /\ gcpTask.compute.st = "pending" /\ gcpTask.cloudRun.st = "pending"
  /\ response.status # 0 =>
       /\ \A i \in 1..3 : Tasks[i].st = "done"
       /\ \A call \in {"vapi", "compute", "requests", "hetzner"} : Settled(call)
       /\ Settled("cpu") <=> OutcomeOf("requests").kind = "ok"
  /\ response.status = 200 =>
       /\ Body.vapi = ExpectedVapi
       /\ Body.cloudRun = ExpectedGcp.cloudRun
       /\ Body.openclaw = ExpectedGcp.openclaw
       /\ Body.chatwoot = ExpectedHetzner
       /\ Body.totalMonth = MAdd(ExpectedVapi.total,
                                 MAdd(ExpectedGcp.cloudRun.total,
                                      MAdd(ExpectedHetzner.total, ExpectedGcp.openclaw.total)))

\* the calls completed in the reverse of the order in which they were issued
C11_Witness ==
  /\ log.on
  /\ response.status = 200
  /\ Settled("cpu")
  /\ Position("hetzner") < Position("cpu")
  /\ Position("cpu") < Position("compute")
  /\ Position("compute") < Position("vapi")
  /\ \A k \in {"vapi", "cloudRun", "chatwoot", "openclaw"} : IsLive(Body[k])

CallsPending ==
  \/ \E i \in 1..3 : Tasks[i].st = "pending"
  \/ gcpTask.st = "pending" /\ (gcpTask.compute.st = "pending" \/ gcpTask.cloudRun.st = "pending")

\* C12: if every remote call issued for a request settles in the end, the
\* request gets a response in the end; and no response is produced while a
\* call of the request is still pending (nothing is cancelled or timed out).
C12_ResponseAfterSlowestCall ==
  /\ [](response.status # 0 => ~CallsPending)
  /\ (pc = "awaiting") ~> (response.status # 0)

\* a response produced after the clock has moved while calls were pending
C12_Witness ==
  /\ response.status = 200
  /\ elapsed > 0
  /\ env = AllConfigured
  /\ Body.timestamp = Body.chatwoot.lastUpdated

\* the first day of the calendar month of the arrival, at 00:00
FirstOfMonth == Arrival - ((getDate(Arrival) - 1) * 24 + getHours(Arrival))

\* C13: when the period parameter is absent or empty GET behaves as for
\* period=month: the estimators resolve the range of the current month and
\* the response is the one of period=month, with month in its period field.
C13_AbsentPeriodIsMonth ==
  (pc # "idle" /\ log.on /\ log.raw = "") =>
    /\ period = "month"
    /\ vapiTask.range = [start |-> FirstOfMonth, end |-> Arrival]
    /\ gcpTask.range = [start |-> FirstOfMonth, end |-> Arrival]
    /\ HasRange(hetznerTask) => hetznerTask.range.start = FirstOfMonth
    /\ response.status # 0 =>
         /\ response.status = 200
         /\ Body.period = "month"
         /\ Body.vapi = VapiSettled(VapiStart(env.VAPI_API_KEY, "month", Arrival),
                                    OutcomeOf("vapi")).result
         /\ Body.chatwoot = HetznerSettled("month", Events[Position("hetzner")].at,
                                           OutcomeOf("hetzner")).result
         /\ Body.openclaw = ExpectedGcp.openclaw
         /\ Body.cloudRun = ExpectedGcp.cloudRun

\* a response to a request without period, with every estimate live
C13_Witness ==
  /\ log.on
  /\ log.raw = ""
  /\ response.status = 200
  /\ Body.period = "month"
  /\ \A k \in {"vapi", "cloudRun", "chatwoot", "openclaw"} : IsLive(Body[k])

InfraBody == infra.response.body
\* the sum of a field over the rows of the answer, last row first
RECURSIVE TotalOf(_, _, _)
TotalOf(rows, field, n) ==
  IF n = 0 THEN MZero ELSE MAdd(TotalOf(rows, field, n - 1), rows[n][field])
InfraFailed ==
  \/ ~env.HETZNER_API_TOKEN
  \/ "o" \in DOMAIN infra /\ Failed(infra.o)

\* C14: every response of GET /api/costs/hetzner has status 200, totalMonthly
\* is the sum of priceMonthly and totalCurrentMonth the sum of
\* currentMonthCost over the servers returned, both are 0 with no servers
\* after any failure, and the response is given by the token and the outcome
\* of the Hetzner call alone, whatever GET /api/costs is doing.
C14_InfraTotalsAreSums ==
  infra.st = "done" =>
    /\ infra.response.status = 200
    /\ InfraBody.totalMonthly
         = TotalOf(InfraBody.servers, "priceMonthly", Len(InfraBody.servers))
    /\ InfraBody.totalCurrentMonth
         = TotalOf(InfraBody.servers, "currentMonthCost", Len(InfraBody.servers))
    /\ InfraFailed =>
         /\ InfraBody.servers = <<>>
         /\ InfraBody.totalMonthly = MZero
         /\ InfraBody.totalCurrentMonth = MZero
    /\ infra.response
         = (IF env.HETZNER_API_TOKEN
            THEN InfraSettled(InfraBody.lastUpdated, infra.o).response
            ELSE InfraStart(FALSE, InfraBody.lastUpdated).response)

\* an inventory answered while a request for another period was served
C14_Witness ==
  /\ infra.st = "done"
  /\ "o" \in DOMAIN infra /\ infra.o.kind = "ok"
  /\ Len(InfraBody.servers) > 0
  /\ InfraBody.totalCurrentMonth # MZero
  /\ InfraBody.totalMonthly # InfraBody.totalCurrentMonth
  /\ pc = "done" /\ period = "all"

\* the monitoring queries returned metrics that show activity
CloudRunActivity ==
  /\ "cloudRun" \in DOMAIN gcpTask
  /\ ~IsNull(gcpTask.cloudRun.metrics)
  /\ (gcpTask.cloudRun.metrics.requests > 0 \/ gcpTask.cloudRun.metrics.billableSeconds > 0)
\* 200 requests a day at 0.40 per million, over the hours of the period
CloudRunLinearEstimate(hours) == MThird(MScale(hours, Nano(10000)))

\* C15: cloudRun.isRealData is true exactly when the monitoring queries
\* returned metrics with a request count or billable seconds above 0; in
\* every other case the total is the static estimate, linear in the length
\* of the period at 200 requests a day.
\* (With credentials the fallback prices Math.round(days * 200) requests.)
C15_CloudRunLiveOrLinearEstimate ==
  (response.status = 200 /\ Body.period \in Periods) =>
    /\ IsLive(Body.cloudRun) <=> CloudRunActivity
    /\ ~CloudRunActivity =>
         Body.cloudRun.total = CloudRunLinearEstimate(ElapsedInPeriod(Body.period, Arrival))

\* the monitoring query returned samples of the instance
ComputeSamples ==
  /\ "compute" \in DOMAIN gcpTask
  /\ ~IsNull(gcpTask.compute.metrics)
  /\ gcpTask.compute.metrics.uptimeHours > 0

\* C16: for the openclaw instance, when no live monitoring data is available
\* (no credentials, query failed, no samples) the total is the elapsed hours
\* of the period at the hourly rate and the estimate is not live; when uptime
\* hours were observed the total is those hours at the hourly rate and
\* isRealData is true.
\* (With credentials the fallback charges 99.9% of the elapsed hours.)
C16_OpenclawElapsedOrObservedHours ==
  (response.status = 200 /\ Body.period \in Periods) =>
    IF ComputeSamples
    THEN /\ IsLive(Body.openclaw)
         /\ Body.openclaw.total = MScale(gcpTask.compute.metrics.uptimeHours, Micro(33550))
    ELSE /\ ~IsLive(Body.openclaw)
         /\ Body.openclaw.total = MScale(ElapsedInPeriod(Body.period, Arrival), Micro(33550))

ErrorShown == ~IsNull(page.error)

\* C17: the error message is shown after a cost fetch exactly when that fetch
\* failed (non-OK status, network error); a 200 response never sets it,
\* whatever figures it carries, and starting the next fetch clears it.
\* (A failure of an earlier fetch that arrives late stays on screen after
\* the newer fetch has succeeded.)
C17_ErrorShownIffFetchFailed ==
  /\ page.lastEvent.what = "failed" => ErrorShown
  /\ page.lastEvent.what \in {"none", "start", "ok"} => ~ErrorShown

\* the fetch issued by the step, if the step issued one
NewFetch == [id |-> page'.issued, period |-> page'.period]

\* C18: while the costs tab is active every change of the selected period
\* issues one fetch of /api/costs for the period just selected; a fetch is
\* only ever issued with the costs tab active, and none at initial load.
C18_PeriodChangeRefetches ==
  /\ page.activeTab = "apps" /\ page.issued = 0 /\ page.inflight = {}
  /\ [][/\ (page.activeTab = "costs" /\ page'.period # page.period) =>
             /\ page'.issued = page.issued + 1
             /\ page'.inflight = page.inflight \cup {NewFetch}
        /\ (page'.issued # page.issued \/ ~(page'.inflight \subseteq page.inflight)) =>
             /\ page'.activeTab = "costs"
             /\ page'.issued = page.issued + 1
             /\ page'.inflight = page.inflight \cup {NewFetch}
             /\ (page'.period # page.period \/ page.activeTab = "apps")
        /\ page'.activeTab = "apps" => page'.issued = page.issued
       ]_vars

\* the period was changed twice in the costs tab while the tab's first fetch
\* was in flight
C18_Witness ==
  /\ page.activeTab = "costs"
  /\ page.period = "all"
  /\ page.inflight = {[id |-> 1, period |-> "month"], [id |-> 2, period |-> "today"],
                      [id |-> 3, period |-> "all"]}

SameDay(a, b) == getFullYear(a) = getFullYear(b) /\ getMonth(a) = getMonth(b) /\ getDate(a) = getDate(b)

\* C19: getDateRange returns end = now for every period; start is 00:00 of
\* the current local day for today, now minus 7 days for week, and 00:00 of
\* the first day of the current calendar month for month.
C19_RangeOfEachPeriod ==
  HasRange(vapiTask) =>
    LET start == vapiTask.range.start
        now == Arrival
    IN  /\ vapiTask.range.end = now
        /\ period = "today" => getHours(start) = 0 /\ SameDay(start, now)
        /\ period = "week" => start = now - 7 * 24
        /\ period = "month" =>
             /\ getHours(start) = 0
             /\ getDate(start) = 1
             /\ getMonth(start) = getMonth(now)
             /\ getFullYear(start) = getFullYear(now)

\* the range of month resolved in the evening of 29 February 2024
C19_Witness ==
  /\ HasRange(vapiTask)
  /\ period = "month"
  /\ Arrival = MakeDate(2024, 1, 29, 21)
  /\ vapiTask.range.start = MakeDate(2024, 1, 1, 0)

RECURSIVE MSum(_, _)
\* the sum of the first n values
MSum(values, n) == IF n = 0 THEN MZero ELSE MAdd(MSum(values, n - 1), values[n])
CostOf(call) == IF "cost" \in DOMAIN call THEN call.cost ELSE MZero
ShareOf(call, k) ==
  IF "costBreakdown" \in DOMAIN call /\ k \in DOMAIN call.costBreakdown
  THEN call.costBreakdown[k] ELSE MZero

\* C20: on a successful VAPI call returning a list of records, calls is the
\* number of records, total is the sum of their cost fields (a missing cost
\* counts as 0), and each of transport, stt, llm, tts, vapi in the breakdown
\* is the sum of that category over the records that carry a costBreakdown.
C20_VapiTotalsAreSumsOverRecords ==
  (log.on /\ vapiTask.st = "done" /\ Settled("vapi") /\ OutcomeOf("vapi").kind = "ok") =>
    LET calls == OutcomeOf("vapi").body.array
        n == Len(calls)
        result == vapiTask.result
    IN  /\ result.calls = n
        /\ IsLive(result)
        /\ result.total = MSum([i \in 1..n |-> CostOf(calls[i])], n)
        /\ DOMAIN result.breakdown = {"transport", "stt", "llm", "tts", "vapi"}
        /\ \A k \in {"transport", "stt", "llm", "tts", "vapi"} :
             result.breakdown[k] = MSum([i \in 1..n |-> ShareOf(calls[i], k)], n)

\* a list with a full record, one without costBreakdown and one without cost
C20_Witness ==
  /\ log.on
  /\ response.status = 200
  /\ Settled("vapi")
  /\ OutcomeOf("vapi") = [kind |-> "ok", body |-> [array |-> <<CallNoBreakdown, CallFull, CallPartial>>]]
  /\ Body.vapi.calls = 3
  /\ Body.vapi.total = Micro(80000)
  /\ Body.vapi.breakdown.stt = Micro(11000)


\* calendar months before the month of now that the server existed from their
\* first instant to their last
WholeMonthsBefore(created, now) ==
  LET months == (getFullYear(now) - getFullYear(created)) * 12
                + (getMonth(now) - getMonth(created))
      atMonthStart == created = MakeDate(getFullYear(created), getMonth(created), 1, 0)
  IN  IF months <= 0 THEN 0
      ELSE IF atMonthStart THEN months ELSE months - 1

\* C21: for period all the cost of a server that exists at now is the number
\* of whole calendar months it has existed before the current month at the
\* monthly rate, plus the part of the current month at the hourly rate capped
\* at the monthly rate; the month of its creation, in which it existed only
\* partly, is not counted as a whole month.
\* (The code counts the month of creation as a whole month.)
C21_AllCountsWholeMonthsOnly ==
  (HetznerListed /\ period = "all") =>
    \A i \in 1..Len(hetznerTask.servers) :
      LET server == hetznerTask.servers[i]
          now == hetznerTask.range.end
          startOfMonth == now - ((getDate(now) - 1) * 24 + getHours(now))
          cap == PriceMonthly(server)
          whole == MScale(WholeMonthsBefore(server.created, now), cap)
          sinceMonthStart == MMin(MScale(now - startOfMonth, PriceHourly(server)), cap)
          sinceCreation == MonthCost(server.created, PriceHourly(server), cap, now)
          cost == hetznerTask.result.servers[i].cost
      IN  server.created < now =>
            cost \in {MAdd(whole, sinceMonthStart), MAdd(whole, sinceCreation)}

\* C22: in every 200 response, on the live path and on both fallback paths
\* (no credentials; credentials with no usable monitoring data),
\* openclaw.total is openclaw.uptimeHours times openclaw.hourlyRate, so that
\* the two fallback paths, which both report 99.9% of the hours of the period
\* as uptimeHours, give the same total.
\* (getGCPCostsEstimated charges all the hours of the period and reports
\* 99.9% of them. uptimeHours is kept in thousandths of an hour.)
C22_OpenclawTotalIsHoursTimesRate ==
  response.status = 200 =>
    Body.openclaw.total = MScale(Body.openclaw.uptimeHours, MDiv1000(Body.openclaw.hourlyRate))

\* C23: in every 200 response openclaw.uptime is a percentage between 0 and
\* 100: the uptime hours never exceed the hours of the requested period,
\* whatever the number of time series (instances) and points of the
\* monitoring answer.
\* (The points of all the series are added up, and a period of no duration
\* divides by zero. uptime is kept as the fraction it is computed from.)
C23_UptimeIsAPercentage ==
  response.status = 200 =>
    LET uptime == Body.openclaw.uptime
    IN  /\ uptime.den > 0
        /\ 0 <= uptime.num
        /\ uptime.num <= uptime.den

\* both routes have computed their figures from the same server list at the
\* same instant, GET /api/costs for period month
SameInventoryAndInstant ==
  /\ HetznerListed
  /\ period = "month"
  /\ infra.st = "done"
  /\ "error" \notin DOMAIN infra.response.body
  /\ "servers" \in DOMAIN infra.o.data
  /\ hetznerTask.servers = infra.o.data.servers
  /\ hetznerTask.result.lastUpdated = infra.response.body.lastUpdated

\* C24: for the same server list and the same current instant, chatwoot.total
\* of GET /api/costs?period=month equals totalCurrentMonth of
\* GET /api/costs/hetzner: both give the same cost for each server, whether it
\* was created before the month, inside it or later than now, and that cost
\* lies between 0 and the monthly rate.
\* (For a creation instant later than now getHetznerCostsReal gives 0 and
\* calculateCurrentMonthCost a negative amount.)
C24_BothProrationsAgree ==
  SameInventoryAndInstant =>
    /\ hetznerTask.result.total = infra.response.body.totalCurrentMonth
    /\ \A i \in 1..Len(hetznerTask.servers) :
         LET cost == hetznerTask.result.servers[i].cost
             row == infra.response.body.servers[i]
         IN  /\ cost = row.currentMonthCost
             /\ MLeq(MZero, cost) /\ MLeq(cost, row.priceMonthly)
             /\ MLeq(MZero, row.currentMonthCost) /\ MLeq(row.currentMonthCost, row.priceMonthly)

\* every fetch the page has issued has completed, and none has failed since
\* the last one was issued (fetchCosts clears the error when it starts): the
\* fetch for the selected period has brought its response
AllFetchesAnswered ==
  /\ page.issued > 0
  /\ page.inflight = {}
  /\ IsNull(page.error)

\* C25: when the period is changed while an earlier fetch is in flight, then
\* once every fetch has completed the costs held in state are the response
\* for the selected period: a late response for a period selected earlier
\* never replaces the response for the newer one.
\* (setCosts is called by whichever fetch completes last.)
C25_CostsAreForSelectedPeriod ==
  AllFetchesAnswered => (~IsNull(page.costs) /\ page.costs.period = page.period)

\* C26: loading is true whenever a fetch of /api/costs issued by the page is
\* in flight, so that no figures are rendered while a fetch is pending, and
\* false once none is pending, whether the last one succeeded or failed.
\* (The finally block of the first fetch to complete sets loading to false.)
C26_LoadingWhileFetchInFlight ==
  LET figuresRendered == ~IsNull(page.costs) /\ ~page.loading
  IN  /\ page.inflight # {} => (page.loading /\ ~figuresRendered)
      /\ page.inflight = {} => ~page.loading

\* the public routes and their sub-paths
PublicRoutes == {"/login", "/api/auth/login", "/api/costs"}
IsPublicRoute(pathname) ==
  \E route \in PublicRoutes : pathname = route \/ startsWith(pathname, route \o "/")

\* C27: the middleware lets a request without a gps_auth cookie of value
\* 'authenticated' through only if its path is /login, /api/auth/login,
\* /api/costs or a sub-path of one of them; every other request without that
\* cookie is redirected to /login, and every request with it is passed.
\* (The test is pathname.startsWith(path): /login-audit and /api/costs-export
\* pass as well.)
C27_OnlyPublicRoutesPassUnauthenticated ==
  auth.mw.kind # "none" =>
    LET authenticated == ~IsNull(auth.mw.cookie) /\ auth.mw.cookie.value = "authenticated"
        public == IsPublicRoute(auth.mw.pathname)
    IN  /\ authenticated => auth.mw.kind = "next"
        /\ (~authenticated /\ auth.mw.kind = "next") => public
        /\ (~authenticated /\ ~public) =>
             (auth.mw.kind = "redirect" /\ auth.mw.location = "/login")

\* the credentials the login route is configured with: those of process.env,
\* admin / gps2026 where a variable is unset or empty
ConfiguredUsername ==
  IF auth.config.ADMIN_USERNAME = "" THEN "admin" ELSE auth.config.ADMIN_USERNAME
ConfiguredPassword ==
  IF auth.config.ADMIN_PASSWORD = "" THEN "gps2026" ELSE auth.config.ADMIN_PASSWORD
CredentialsMatch(b) ==
  /\ b.kind = "json"
  /\ ~IsNull(b.value)
  /\ {"username", "password"} \subseteq DOMAIN b.value
  /\ b.value.username = ConfiguredUsername
  /\ b.value.password = ConfiguredPassword
SetsAuthCookie(answer) ==
  "gps_auth" \in DOMAIN answer.cookies /\ answer.cookies.gps_auth.value = "authenticated"

\* C28: the login route sets the cookie gps_auth=authenticated exactly when
\* the username and the password of the body both equal the configured admin
\* credentials; every other body is answered with status 401, or 500 when it
\* cannot be read as an object, and sets no cookie.
C28_CookieOnlyForAdminCredentials ==
  auth.login.status # 0 =>
    LET b == auth.login.request
    IN  /\ SetsAuthCookie(auth.login) <=> CredentialsMatch(b)
        /\ CredentialsMatch(b) => auth.login.status = 200
        /\ ~CredentialsMatch(b) =>
             /\ auth.login.cookies = <<>>
             /\ auth.login.status = (IF b.kind = "invalid_json" \/ IsNull(b.value)
                                     THEN 500 ELSE 401)
        /\ IsNull(auth.jar) => ~CredentialsMatch(b)

\* a login with the configured credentials, other than the defaults, after
\* which the browser holds the cookie
C28_Witness ==
  /\ auth.login.status = 200
  /\ auth.login.request.value.username = "root"
  /\ auth.login.request.value.password = "s3cret"
  /\ SetsAuthCookie(auth.login)
  /\ auth.jar = [value |-> "authenticated"]

====
